---- MODULE Spec2Model ----
(***************************************************************************)
(* Model of the boot-up checks script (the merged version with the port    *)
(* check): checkAndInstallDependencies, then checkAndSetPort, then         *)
(* closeReadline, run by the async main function.                          *)
(*                                                                         *)
(* Strings the operator types and strings stored in config.json are        *)
(* sequences of one-character strings, so trim, toLowerCase, parseInt and  *)
(* the string-to-number coercion of >= and <= are computed, not assumed.   *)
(* A JavaScript value is a record [t, n, s]: t is its kind, n its integer  *)
(* part (a "frac" is a non-integer number whose floor is n), s its         *)
(* characters when it is a string.                                         *)
(***************************************************************************)
EXTENDS Integers, Sequences, FiniteSets, TLC

(* ------------------------------ bounds -------------------------------- *)

\* Longest list of required dependencies passed to checkAndInstallDependencies.
MaxDeps == 2

\* Most "Enter a new port: " questions asked in one run (the loop itself is unbounded).
MaxPrompts == 2

\* Most direct calls of isPortInUse made by a caller other than checkAndSetPort.
MaxProbes == 2

(* --------------------------- JavaScript values ------------------------ *)

Undefined == [t |-> "undefined", n |-> 0, s |-> <<>>]
Null      == [t |-> "null", n |-> 0, s |-> <<>>]
NaN       == [t |-> "nan", n |-> 0, s |-> <<>>]
Bool(b)   == [t |-> "boolean", n |-> IF b THEN 1 ELSE 0, s |-> <<>>]
Num(i)    == [t |-> "int", n |-> i, s |-> <<>>]
Frac(i)   == [t |-> "frac", n |-> i, s |-> <<>>]
Str(cs)   == [t |-> "string", n |-> 0, s |-> cs]

Digits == {"0", "1", "2", "3", "4", "5", "6", "7", "8", "9"}

DigitVal(c) ==
  CASE c = "0" -> 0 [] c = "1" -> 1 [] c = "2" -> 2 [] c = "3" -> 3 [] c = "4" -> 4
    [] c = "5" -> 5 [] c = "6" -> 6 [] c = "7" -> 7 [] c = "8" -> 8 [] c = "9" -> 9

\* String.prototype.toLowerCase, on the letters the model's inputs use.
LowerChar(c) ==
  CASE c = "Y" -> "y" [] c = "E" -> "e" [] c = "S" -> "s" [] c = "N" -> "n"
    [] c = "O" -> "o" [] OTHER -> c

ToLowerCase(cs) == [i \in 1..Len(cs) |-> LowerChar(cs[i])]

RECURSIVE TrimStart(_)
TrimStart(cs) ==
  IF cs # <<>> /\ Head(cs) = " " THEN TrimStart(Tail(cs)) ELSE cs

RECURSIVE TrimEnd(_)
TrimEnd(cs) ==
  IF cs # <<>> /\ cs[Len(cs)] = " " THEN TrimEnd(SubSeq(cs, 1, Len(cs) - 1)) ELSE cs

\* String.prototype.trim
Trim(cs) == TrimEnd(TrimStart(cs))

\* The longest prefix of cs made of digits.
RECURSIVE DigitPrefix(_)
DigitPrefix(cs) ==
  IF cs # <<>> /\ Head(cs) \in Digits THEN <<Head(cs)>> \o DigitPrefix(Tail(cs)) ELSE <<>>

\* The value of a sequence of digits, read in base 10.
RECURSIVE DigitsValue(_)
DigitsValue(ds) ==
  IF ds = <<>> THEN 0
  ELSE 10 * DigitsValue(SubSeq(ds, 1, Len(ds) - 1)) + DigitVal(ds[Len(ds)])

\* parseInt(cs, 10): leading white space skipped, an optional sign, then the
\* longest run of digits; NaN when there is no digit there.
ParseInt(cs) ==
  LET t    == TrimStart(cs)
      neg  == t # <<>> /\ Head(t) = "-"
      body == IF t # <<>> /\ Head(t) \in {"-", "+"} THEN Tail(t) ELSE t
      ds   == DigitPrefix(body)
  IN  IF ds = <<>> THEN NaN
      ELSE Num(IF neg THEN 0 - DigitsValue(ds) ELSE DigitsValue(ds))

\* ToNumber of a string (StringToNumber): white space trimmed, "" is 0, a
\* signed decimal literal is its value, anything else is NaN.
StringToNumber(cs) ==
  LET t     == Trim(cs)
      neg   == t # <<>> /\ Head(t) = "-"
      body  == IF t # <<>> /\ Head(t) \in {"-", "+"} THEN Tail(t) ELSE t
      ip    == DigitPrefix(body)
      rest  == SubSeq(body, Len(ip) + 1, Len(body))
      fp    == IF rest # <<>> /\ Head(rest) = "." THEN DigitPrefix(Tail(rest)) ELSE <<>>
      whole == DigitsValue(ip)
  IN  IF t = <<>> THEN Num(0)
      ELSE IF ip = <<>> THEN NaN
      ELSE IF rest = <<>> THEN Num(IF neg THEN 0 - whole ELSE whole)
      ELSE IF Head(rest) = "." /\ fp # <<>> /\ Len(rest) = Len(fp) + 1
        THEN IF DigitsValue(fp) = 0
               THEN Num(IF neg THEN 0 - whole ELSE whole)
               ELSE Frac(IF neg THEN 0 - whole - 1 ELSE whole)
      ELSE NaN

\* ToNumber, as the relational operators apply it to an operand.
ToNumber(v) ==
  CASE v.t = "undefined" -> NaN
    [] v.t = "null"      -> Num(0)
    [] v.t = "boolean"   -> Num(v.n)
    [] v.t = "string"    -> StringToNumber(v.s)
    [] OTHER             -> v

\* v >= k for an integer k: false when v is not a number after coercion.
GreaterEq(v, k) ==
  LET x == ToNumber(v) IN x.t # "nan" /\ x.n >= k

\* v <= k for an integer k (a "frac" with floor n lies strictly between n and n + 1).
LessEq(v, k) ==
  LET x == ToNumber(v)
  IN  \/ x.t = "int" /\ x.n <= k
      \/ x.t = "frac" /\ x.n < k

\* ToBoolean
Truthy(v) ==
  CASE v.t \in {"undefined", "null", "nan"} -> FALSE
    [] v.t = "boolean" -> v.n = 1
    [] v.t = "int"     -> v.n # 0
    [] v.t = "frac"    -> TRUE
    [] v.t = "string"  -> v.s # <<>>

(* ------------------------- configuration records ----------------------- *)

\* A parsed JSON object is the sequence of its [k, v] members, in key order.
RECURSIVE Get(_, _)
Get(obj, key) ==
  IF obj = <<>> THEN Undefined
  ELSE IF Head(obj).k = key THEN Head(obj).v ELSE Get(Tail(obj), key)

HasKey(obj, key) == \E i \in 1..Len(obj) : obj[i].k = key

\* obj[key] = v: an existing member keeps its place, a new one goes last.
SetKey(obj, key, v) ==
  IF HasKey(obj, key)
  THEN [i \in 1..Len(obj) |-> IF obj[i].k = key THEN [k |-> key, v |-> v] ELSE obj[i]]
  ELSE Append(obj, [k |-> key, v |-> v])

\* What JSON.stringify writes for a member's value and JSON.parse reads back:
\* NaN is written as null; the other values of the model are kept.
JsonValue(v) == IF v.t = "nan" THEN Null ELSE v

\* JSON.stringify(obj, null, 2), read as the members of the text written:
\* members whose value is undefined are left out.
RECURSIVE JsonStringify(_)
JsonStringify(obj) ==
  IF obj = <<>> THEN <<>>
  ELSE IF Head(obj).v.t = "undefined" THEN JsonStringify(Tail(obj))
  ELSE <<[k |-> Head(obj).k, v |-> JsonValue(Head(obj).v)]>> \o JsonStringify(Tail(obj))

\* The contents of ./config.json. kind "bad": the file is missing or is not
\* JSON; "null": the JSON text null; "prim": a JSON number, string or boolean;
\* "object": a JSON object with the given members.
FileBad      == [kind |-> "bad", members |-> <<>>]
FileNull     == [kind |-> "null", members |-> <<>>]
FilePrim     == [kind |-> "prim", members |-> <<>>]
FileObject(m) == [kind |-> "object", members |-> m]

(* ------------------------------ inputs --------------------------------- *)

Express == <<"e", "x", "p", "r", "e", "s", "s">>
Ws      == <<"w", "s">>

\* The one list the script passes (requiredDeps).
requiredDeps == <<Express>>

\* Package names a caller may pass; the empty name is a string too.
Names == {<<>>, Express, Ws}

NoRepeat(q) == \A i, j \in 1..Len(q) : q[i] = q[j] => i = j

\* The lists of at most n distinct members of S.
RECURSIVE ListsUpTo(_, _)
ListsUpTo(S, n) ==
  IF n = 0 THEN {<<>>}
  ELSE LET shorter == ListsUpTo(S, n - 1)
           longer  == {Append(q, x) : q \in {r \in shorter : Len(r) = n - 1}, x \in S}
       IN  shorter \cup {q \in longer : NoRepeat(q)}

\* Lists of required names passed to checkAndInstallDependencies.
DepLists == ListsUpTo(Names, MaxDeps)

\* Lines the operator types at "Do you want to install ...? (yes/no): ".
DepAnswers == {<<" ", "Y", "E", "S", " ">>, <<"n", "o">>, <<"y">>}

\* Lines the operator types at "Enter a new port: ".
PortAnswers ==
  { <<"9", "9", "9", "9", "9">>, <<" ", "3", "0", "0", "0">>, <<"8", "0">>,
    <<"a", "b", "c">>, <<"0">> }

\* Values of the port member of config.json (Undefined: no such member).
ConfigPorts ==
  { Undefined, Num(0), Num(3000), Num(80000), Frac(3000),
    Str(<<"3", "0", "0", "0">>), Bool(TRUE) }

OtherMember == [k |-> "otherField", v |-> Str(<<"x">>)]
PortMember(v) == [k |-> "port", v |-> v]

\* config.json before the run.
ConfigFiles ==
  {FileBad, FileNull, FilePrim}
  \cup {FileObject(IF v = Undefined THEN <<OtherMember>> ELSE <<PortMember(v), OtherMember>>) :
          v \in ConfigPorts}
  \cup {FileObject(<<OtherMember, PortMember(Num(80000))>>)}

\* Ports another process may hold or take while the script runs.
ExternalPorts == {3000}

(* ------------------------------- state --------------------------------- *)

VARIABLES
  pc,                   \* where the main async function is suspended or about to run
  dependencies,         \* the argument of checkAndInstallDependencies
  missingDependencies,  \* line 77
  declinedDependencies, \* line 78
  depIndex,             \* position of the for...of loop of line 80
  config,               \* the parsed configuration (line 132): [kind, members]
  newPort,              \* line 145
  probePort,            \* the argument of the isPortInUse call in progress
  probeFrom,            \* which await the probe resolves: "initial" (line 140) or "loop" (152)
  probeRes,             \* the value the probe's promise resolved to
  held,                 \* ports on which this process has a listening socket
  rlClosed,             \* rl.close() has been called
  installed,            \* packages require.resolve finds
  file,                 \* contents of ./config.json
  extBound,             \* ports bound by other processes
  history               \* what an observer of the run has seen so far

progVars == <<pc, dependencies, missingDependencies, declinedDependencies, depIndex,
              config, newPort, probePort, probeFrom, probeRes, held, rlClosed>>
envVars  == <<installed, file, extBound>>
vars     == <<progVars, envVars, history>>

History0 ==
  [ installed0   |-> {},     \* packages that resolved when the run began
    file0        |-> FileBad,\* config.json when the run began
    depAnswers   |-> <<>>,   \* the lines typed at the install questions, in order
    execLog      |-> <<>>,   \* names given to "npm install", in order
    execFailed   |-> <<>>,   \* for each of them, whether the command failed
    summary      |-> "none", \* which summary the dependency stage printed
    depsFinished |-> FALSE,  \* checkAndInstallDependencies has returned
    reads        |-> 0,      \* readFileSync calls
    probes       |-> 0,      \* isPortInUse calls
    portPrompts  |-> 0,      \* "Enter a new port: " questions asked
    rejected     |-> 0,      \* candidates answered with a message and `continue`
    writes       |-> 0,      \* writeFileSync calls that returned
    written      |-> <<>>,   \* members of the last text written
    accepted     |-> NaN,    \* the candidate stored by line 157
    validCalled  |-> FALSE,  \* isPortValid has been called
    validArg     |-> NaN,    \* its last argument
    validRes     |-> FALSE,  \* its last result
    probedPort   |-> NaN,    \* argument of the last probe that resolved
    probedRes    |-> FALSE,  \* what it resolved to
    probeThrew   |-> FALSE,  \* an isPortInUse call rejected
    prevPort     |-> NaN,    \* argument of the probe that resolved before a direct call
    prevRes      |-> FALSE,  \* what that probe resolved to
    boundSince   |-> {},     \* ports another process bound since the last listen call
    quiet        |-> TRUE,   \* at the last listen call, its port was not among them
    portOutcome  |-> "none", \* how checkAndSetPort ended
    closes       |-> 0,      \* rl.close() calls
    sessions     |-> 1,      \* readline interfaces created (line 8 creates the one of this script)
    outstanding  |-> 0,      \* questions and probes started and not yet resolved
    manualLines  |-> <<>>,   \* names printed as "npm install <name>" by the summary
    declinedAtSummary  |-> <<>>, \* the declined list when the dependency stage returned
    installedAtSummary |-> {},   \* the packages that resolved then
    firstProbe   |-> "none", \* answer of the probe of the configured port: "inuse" or "free"
    loopEntered  |-> FALSE,  \* the prompt loop of line 143 was entered
    atWrite      |-> <<>>    \* <<reads, probes, portPrompts>> when writeFileSync returned
  ]

Init ==
  /\ pc = "start"
  /\ dependencies \in DepLists
  /\ missingDependencies = <<>>
  /\ declinedDependencies = <<>>
  /\ depIndex = 1
  /\ config = FileBad
  /\ newPort = NaN
  /\ probePort = NaN
  /\ probeFrom = "none"
  /\ probeRes = FALSE
  /\ held = {}
  /\ rlClosed = FALSE
  /\ installed \in SUBSET {Express}
  /\ file \in ConfigFiles
  /\ extBound \in SUBSET ExternalPorts
  /\ history = [History0 EXCEPT !.installed0 = installed, !.file0 = file]

(* --------------------------- the prompter ------------------------------ *)

\* What askUser resolves with for a typed line (line 21).
askUser(line) == ToLowerCase(Trim(line))

Yes == <<"y", "e", "s">>

(* ------------------------ the dependency stage ------------------------- *)

\* require.resolve(dependency) succeeds.
isDependencyInstalled(dependency) == dependency \in installed

\* dependencies.filter(dep => !isDependencyInstalled(dep))
RECURSIVE FilterMissing(_)
FilterMissing(deps) ==
  IF deps = <<>> THEN <<>>
  ELSE IF isDependencyInstalled(Head(deps)) THEN FilterMissing(Tail(deps))
  ELSE <<Head(deps)>> \o FilterMissing(Tail(deps))

\* The main function starts and calls checkAndInstallDependencies, which
\* computes the missing names and starts with no declined name.
checkAndInstallDependencies ==
  /\ pc = "start"
  /\ missingDependencies' = FilterMissing(dependencies)
  /\ declinedDependencies' = <<>>
  /\ depIndex' = 1
  /\ pc' = "deps_loop"
  /\ UNCHANGED <<dependencies, config, newPort, probePort, probeFrom, probeRes, held,
                 rlClosed, envVars, history>>

\* When installDependencyAsk_NotAwaited is used for installDependencyAsk, the
\* loop does not await installDependency and asks about the next name while
\* the question before it is unanswered.
installDependencyAsk_NotAwaited ==
  /\ pc \in {"deps_loop", "deps_ask"}
  /\ depIndex + history.outstanding <= Len(missingDependencies)
  /\ ~rlClosed
  /\ pc' = "deps_ask"
  /\ history' = [history EXCEPT !.outstanding = @ + 1]
  /\ UNCHANGED <<dependencies, missingDependencies, declinedDependencies, depIndex,
                 config, newPort, probePort, probeFrom, probeRes, held, rlClosed,
                 envVars>>

\* The loop takes the next missing name and installDependency asks its question.
installDependencyAsk ==
  /\ pc = "deps_loop"
  /\ depIndex <= Len(missingDependencies)
  /\ ~rlClosed
  /\ pc' = "deps_ask"
  /\ history' = [history EXCEPT !.outstanding = @ + 1]
  /\ UNCHANGED <<dependencies, missingDependencies, declinedDependencies, depIndex,
                 config, newPort, probePort, probeFrom, probeRes, held, rlClosed,
                 envVars>>

\* What installDependency returns for an answer: the name when the answer is
\* not "yes", null otherwise (lines 58-69).
installDependencyResult(dep, answer) ==
  IF answer = Yes THEN Null ELSE Str(dep)

\* if (declined) declinedDependencies.push(declined)  (lines 82-84)
pushDeclined(list, declined) ==
  IF Truthy(declined) THEN Append(list, declined.s) ELSE list

\* When installDependencyAnswer_Throws is used for installDependencyAnswer,
\* the error of a failed install is not caught and ends the run.
installDependencyAnswer_Throws(line, npmOk) ==
  LET dep    == missingDependencies[depIndex]
      answer == askUser(line)
      ran    == answer = Yes
  IN  /\ pc = "deps_ask"
      /\ installed' = IF ran /\ npmOk THEN installed \cup {dep} ELSE installed
      /\ declinedDependencies' =
           IF ran /\ ~npmOk THEN declinedDependencies
           ELSE pushDeclined(declinedDependencies, installDependencyResult(dep, answer))
      /\ depIndex' = depIndex + 1
      /\ history' =
           [history EXCEPT
              !.outstanding = @ - 1,
              !.depAnswers = Append(@, line),
              !.execLog    = IF ran THEN Append(@, dep) ELSE @,
              !.execFailed = IF ran THEN Append(@, ~npmOk) ELSE @]
      /\ pc' = IF ran /\ ~npmOk THEN "crashed" ELSE "deps_loop"
      /\ UNCHANGED <<dependencies, missingDependencies, config, newPort, probePort,
                     probeFrom, probeRes, held, rlClosed, file, extBound>>

\* When installDependencyAnswer_DeclinesFailed is used for
\* installDependencyAnswer, a failed install counts as declined.
installDependencyAnswer_DeclinesFailed(line, npmOk) ==
  LET dep    == missingDependencies[depIndex]
      answer == askUser(line)
      ran    == answer = Yes
  IN  /\ pc = "deps_ask"
      /\ installed' = IF ran /\ npmOk THEN installed \cup {dep} ELSE installed
      /\ declinedDependencies' =
           IF ran /\ ~npmOk THEN Append(declinedDependencies, dep)
           ELSE pushDeclined(declinedDependencies, installDependencyResult(dep, answer))
      /\ depIndex' = depIndex + 1
      /\ history' =
           [history EXCEPT
              !.outstanding = @ - 1,
              !.depAnswers = Append(@, line),
              !.execLog    = IF ran THEN Append(@, dep) ELSE @,
              !.execFailed = IF ran THEN Append(@, ~npmOk) ELSE @]
      /\ pc' = "deps_loop"
      /\ UNCHANGED <<dependencies, missingDependencies, config, newPort, probePort,
                     probeFrom, probeRes, held, rlClosed, file, extBound>>

\* The operator answers; installDependency runs "npm install" when the answer
\* is "yes" (the command succeeds or throws, and a throw is caught), and the
\* loop records a declined name.
installDependencyAnswer(line, npmOk) ==
  LET dep    == missingDependencies[depIndex]
      answer == askUser(line)
      ran    == answer = Yes
  IN  /\ pc = "deps_ask"
      /\ installed' = IF ran /\ npmOk THEN installed \cup {dep} ELSE installed
      /\ declinedDependencies' =
           pushDeclined(declinedDependencies, installDependencyResult(dep, answer))
      /\ depIndex' = depIndex + 1
      /\ history' =
           [history EXCEPT
              !.outstanding = @ - 1,
              !.depAnswers = Append(@, line),
              !.execLog    = IF ran THEN Append(@, dep) ELSE @,
              !.execFailed = IF ran THEN Append(@, ~npmOk) ELSE @]
      /\ pc' = "deps_loop"
      /\ UNCHANGED <<dependencies, missingDependencies, config, newPort, probePort,
                     probeFrom, probeRes, held, rlClosed, file, extBound>>

\* When depsSummary_AlwaysConfirms is used for depsSummary, the confirmation
\* is printed whether or not a name was declined.
depsSummary_AlwaysConfirms ==
  /\ pc = "deps_loop"
  /\ depIndex > Len(missingDependencies)
  /\ history' =
       [history EXCEPT
          !.summary      = "all_installed",
          !.declinedAtSummary  = declinedDependencies,
          !.installedAtSummary = installed,
          !.depsFinished = TRUE]
  /\ pc' = "port_start"
  /\ UNCHANGED <<dependencies, missingDependencies, declinedDependencies, depIndex,
                 config, newPort, probePort, probeFrom, probeRes, held, rlClosed, envVars>>

\* After the loop the summary is printed and checkAndInstallDependencies
\* returns; the main function goes on to checkAndSetPort.
depsSummary ==
  /\ pc = "deps_loop"
  /\ depIndex > Len(missingDependencies)
  /\ history' =
       [history EXCEPT
          !.summary      = IF Len(declinedDependencies) > 0 THEN "declined" ELSE "all_installed",
          !.manualLines  = IF Len(declinedDependencies) > 0 THEN declinedDependencies ELSE <<>>,
          !.declinedAtSummary  = declinedDependencies,
          !.installedAtSummary = installed,
          !.depsFinished = TRUE]
  /\ pc' = "port_start"
  /\ UNCHANGED <<dependencies, missingDependencies, declinedDependencies, depIndex,
                 config, newPort, probePort, probeFrom, probeRes, held, rlClosed, envVars>>

(* ----------------------------- the port stage -------------------------- *)

MinPort == 1
MaxPort == 65535

\* port >= 1 && port <= 65535
isPortValid(port) == GreaterEq(port, MinPort) /\ LessEq(port, MaxPort)

\* Ports this process is not allowed to bind (EACCES): the unprivileged
\* process of the model cannot bind port 80.
DeniedPorts == {80}

\* server.listen(port) throws before any bind is attempted: a number or a
\* numeric string that is not an integer in 0..65535, or a boolean.
listenThrows(port) ==
  LET x == ToNumber(port)
  IN  CASE port.t \in {"int", "frac", "nan"} -> ~(x.t = "int" /\ x.n >= 0 /\ x.n <= MaxPort)
        [] port.t = "string"  -> GreaterEq(port, 0) /\ ~(x.t = "int" /\ x.n <= MaxPort)
        [] port.t = "boolean" -> TRUE
        [] OTHER              -> FALSE

\* The numbered ports a listen call that does not throw binds: the port given
\* as a number or numeric string from 1 up; for 0, undefined or null the system
\* picks a port nobody holds, and a non-numeric string names a pipe.
listenPorts(port) ==
  LET x == ToNumber(port)
  IN  IF port.t \in {"int", "string"} /\ x.t = "int" /\ x.n >= 1 THEN {x.n} ELSE {}

\* The bind of a listen call fails: the port is held by another process or by
\* a socket of this process, or binding it is not permitted.
bindFails(p) == p \in extBound \/ p \in held \/ p \in DeniedPorts

\* History fields set by a call isPortValid(v).
NoteValid(h, v) ==
  [h EXCEPT !.validCalled = TRUE, !.validArg = v, !.validRes = isPortValid(v)]

\* When loadFailed_UsesEmptyRecord is used for loadFailed, the catch block
\* goes on with an empty record instead of returning.
loadFailed_UsesEmptyRecord(h) ==
  /\ pc' = "port_loop"
  /\ config' = FileObject(<<>>)
  /\ history' = [h EXCEPT !.portOutcome = "failed_load", !.loopEntered = TRUE]
  /\ UNCHANGED <<probePort, probeFrom>>

\* The catch block of lines 133-136: readFileSync or JSON.parse threw; the
\* error is logged and checkAndSetPort returns.
loadFailed(h) ==
  /\ pc' = "main_close"
  /\ history' = [h EXCEPT !.portOutcome = "failed_load"]
  /\ UNCHANGED <<config, probePort, probeFrom>>

\* checkAndSetPort up to its first await (lines 127-141): read and parse
\* config.json, then test the configured port.
checkAndSetPort ==
  /\ pc = "port_start"
  /\ LET h1   == [history EXCEPT !.reads = @ + 1]
         port == Get(file.members, "port")
     IN  CASE file.kind = "bad" -> loadFailed(h1)
           [] file.kind = "null" ->
                \* config.port on null throws outside the try (line 138)
                /\ pc' = "crashed"
                /\ config' = file
                /\ history' = [h1 EXCEPT !.portOutcome = "threw"]
                /\ UNCHANGED <<probePort, probeFrom>>
           [] OTHER ->
                /\ config' = file
                /\ IF ~Truthy(port)
                   THEN /\ pc' = "port_loop"
                        /\ history' = [h1 EXCEPT !.loopEntered = TRUE]
                        /\ UNCHANGED <<probePort, probeFrom>>
                   ELSE IF ~isPortValid(port)
                   THEN /\ pc' = "port_loop"
                        /\ history' = [NoteValid(h1, port) EXCEPT !.loopEntered = TRUE]
                        /\ UNCHANGED <<probePort, probeFrom>>
                   ELSE /\ pc' = "probe_listen"
                        /\ probePort' = port
                        /\ probeFrom' = "initial"
                        /\ history' = [NoteValid(h1, port) EXCEPT !.probes = @ + 1,
                                                                  !.outstanding = @ + 1]
  /\ UNCHANGED <<dependencies, missingDependencies, declinedDependencies, depIndex,
                 newPort, probeRes, held, rlClosed, envVars>>

\* isPortInUse: the promise executor creates the server and calls listen
\* (lines 114-120). A throw of listen rejects the promise, which nothing catches.
isPortInUse ==
  /\ pc = "probe_listen"
  /\ IF listenThrows(probePort)
     THEN /\ pc' = "crashed"
          /\ history' = [history EXCEPT !.probeThrew = TRUE, !.portOutcome = "threw",
                                        !.outstanding = @ - 1]
          /\ UNCHANGED held
     ELSE LET ps == listenPorts(probePort)
          IN  /\ history' = [history EXCEPT !.quiet = (ps \cap history.boundSince = {}),
                                            !.boundSince = {}]
              /\ IF \E p \in ps : bindFails(p)
                 THEN pc' = "probe_error" /\ UNCHANGED held
                 ELSE pc' = "probe_listening" /\ held' = held \cup ps
  /\ UNCHANGED <<dependencies, missingDependencies, declinedDependencies, depIndex,
                 config, newPort, probePort, probeFrom, probeRes, rlClosed, envVars>>

\* History fields set when the probe's promise resolves.
NoteProbe(h, res) ==
  [h EXCEPT !.probedPort = probePort, !.probedRes = res, !.outstanding = @ - 1]

\* .once("error", () => resolve(true))
probeError ==
  /\ pc = "probe_error"
  /\ probeRes' = TRUE
  /\ history' = NoteProbe(history, TRUE)
  /\ pc' = "probe_resolved"
  /\ UNCHANGED <<dependencies, missingDependencies, declinedDependencies, depIndex,
                 config, newPort, probePort, probeFrom, held, rlClosed, envVars>>

\* When probeListening_NoClose is used for probeListening, the answer is
\* given without closing the server.
probeListening_NoClose ==
  /\ pc = "probe_listening"
  /\ pc' = "probe_closing"
  /\ UNCHANGED <<dependencies, missingDependencies, declinedDependencies, depIndex,
                 config, newPort, probePort, probeFrom, probeRes, held, rlClosed, envVars,
                 history>>

\* .once("listening", () => server.close(...)): the socket is released.
probeListening ==
  /\ pc = "probe_listening"
  /\ held' = held \ listenPorts(probePort)
  /\ pc' = "probe_closing"
  /\ UNCHANGED <<dependencies, missingDependencies, declinedDependencies, depIndex,
                 config, newPort, probePort, probeFrom, probeRes, rlClosed, envVars,
                 history>>

\* The callback of server.close: resolve(false).
probeClosed ==
  /\ pc = "probe_closing"
  /\ probeRes' = FALSE
  /\ history' = NoteProbe(history, FALSE)
  /\ pc' = "probe_resolved"
  /\ UNCHANGED <<dependencies, missingDependencies, declinedDependencies, depIndex,
                 config, newPort, probePort, probeFrom, held, rlClosed, envVars>>

\* config.port = newPort on the parsed value: a member of an object is set,
\* the assignment to a property of a primitive is dropped.
assignPort(cfg, v) ==
  IF cfg.kind = "object" THEN [cfg EXCEPT !.members = SetKey(@, "port", v)] ELSE cfg

\* When writtenFile_PortOnly is used for writtenFile, only the port is written.
writtenFile_PortOnly(cfg) ==
  FileObject(<<[k |-> "port", v |-> JsonValue(Get(cfg.members, "port"))]>>)

\* The text writeFileSync stores (line 158), as the file it parses to.
writtenFile(cfg) ==
  IF cfg.kind = "object" THEN FileObject(JsonStringify(cfg.members)) ELSE cfg

\* Line 141 after the probe of the configured port said "in use": the loop is entered.
enterLoop ==
  /\ pc' = "port_loop"
  /\ history' = [history EXCEPT !.firstProbe = "inuse", !.loopEntered = TRUE]
  /\ UNCHANGED <<config, file>>

\* When confirmPort_Saves is used for confirmPort, the confirmed port is
\* stored as a number and the configuration saved again.
confirmPort_Saves ==
  /\ pc' = "main_close"
  /\ config' = assignPort(config, ToNumber(Get(config.members, "port")))
  /\ file' = writtenFile(config')
  /\ history' = [history EXCEPT !.writes = @ + 1, !.written = file'.members,
                                !.firstProbe = "free", !.portOutcome = "unchanged"]

\* Line 163: the configured port is valid and free; nothing is stored.
confirmPort ==
  /\ pc' = "main_close"
  /\ history' = [history EXCEPT !.firstProbe = "free", !.portOutcome = "unchanged"]
  /\ UNCHANGED <<config, file>>

\* Lines 152-155: the candidate is in use; the loop continues.
rejectInUse ==
  /\ pc' = "port_loop"
  /\ history' = [history EXCEPT !.rejected = @ + 1]
  /\ UNCHANGED <<config, file>>

\* When acceptCandidate_NoBreak is used for acceptCandidate, the loop goes on
\* after the write instead of ending.
acceptCandidate_NoBreak(writeOk) ==
  /\ config' = assignPort(config, newPort)
  /\ IF writeOk
     THEN /\ file' = writtenFile(config')
          /\ history' = [history EXCEPT !.writes = @ + 1,
                                        !.written = file'.members,
                                        !.accepted = newPort,
                                        !.atWrite = <<history.reads, history.probes,
                                                      history.portPrompts>>,
                                        !.portOutcome = "updated"]
          /\ pc' = "port_loop"
     ELSE /\ history' = [history EXCEPT !.accepted = newPort, !.portOutcome = "threw"]
          /\ pc' = "crashed"
          /\ UNCHANGED file

\* Lines 157-160: the candidate is stored in the record and the record is
\* written; writeFileSync returns or throws.
acceptCandidate(writeOk) ==
  /\ config' = assignPort(config, newPort)
  /\ IF writeOk
     THEN /\ file' = writtenFile(config')
          /\ history' = [history EXCEPT !.writes = @ + 1,
                                        !.written = file'.members,
                                        !.accepted = newPort,
                                        !.atWrite = <<history.reads, history.probes,
                                                      history.portPrompts>>,
                                        !.portOutcome = "updated"]
          /\ pc' = "main_close"
     ELSE /\ history' = [history EXCEPT !.accepted = newPort, !.portOutcome = "threw"]
          /\ pc' = "crashed"
          /\ UNCHANGED file

\* When afterProbe_IgnoresInUse is used for afterProbe, the loop stores the
\* candidate whatever the probe answered.
afterProbe_IgnoresInUse(writeOk) ==
  /\ pc = "probe_resolved"
  /\ probeFrom \in {"initial", "loop"}
  /\ CASE probeFrom = "initial" /\ probeRes  -> enterLoop
       [] probeFrom = "initial" /\ ~probeRes -> confirmPort
       [] probeFrom = "loop"                 -> acceptCandidate(writeOk)
  /\ UNCHANGED <<dependencies, missingDependencies, declinedDependencies, depIndex,
                 newPort, probePort, probeFrom, probeRes, held, rlClosed, installed,
                 extBound>>

\* checkAndSetPort resumes with the probe's answer: after the probe of the
\* configured port (line 140) it enters the loop or confirms the port; in the
\* loop (line 152) it rejects the candidate or stores and writes it.
afterProbe(writeOk) ==
  /\ pc = "probe_resolved"
  /\ probeFrom \in {"initial", "loop"}
  /\ CASE probeFrom = "initial" /\ probeRes  -> enterLoop
       [] probeFrom = "initial" /\ ~probeRes -> confirmPort
       [] probeFrom = "loop" /\ probeRes     -> rejectInUse
       [] probeFrom = "loop" /\ ~probeRes    -> acceptCandidate(writeOk)
  /\ UNCHANGED <<dependencies, missingDependencies, declinedDependencies, depIndex,
                 newPort, probePort, probeFrom, probeRes, held, rlClosed, installed,
                 extBound>>

\* The loop asks "Enter a new port: " (line 144).
promptPort ==
  /\ pc = "port_loop"
  /\ ~rlClosed
  /\ history.portPrompts < MaxPrompts
  /\ history' = [history EXCEPT !.portPrompts = @ + 1, !.outstanding = @ + 1]
  /\ pc' = "port_ask"
  /\ UNCHANGED <<dependencies, missingDependencies, declinedDependencies, depIndex,
                 config, newPort, probePort, probeFrom, probeRes, held, rlClosed, envVars>>

\* The operator answers: the candidate is parsed and validated, and a valid
\* one is probed (lines 144-152).
portAnswer(line) ==
  LET candidate == ParseInt(askUser(line))
  IN  /\ pc = "port_ask"
      /\ newPort' = candidate
      /\ IF ~isPortValid(candidate)
         THEN /\ pc' = "port_loop"
              /\ history' = [NoteValid(history, candidate) EXCEPT !.rejected = @ + 1,
                                                                  !.outstanding = @ - 1]
              /\ UNCHANGED <<probePort, probeFrom>>
         ELSE /\ pc' = "probe_listen"
              /\ probePort' = candidate
              /\ probeFrom' = "loop"
              \* the question is resolved, the probe started
              /\ history' = [NoteValid(history, candidate) EXCEPT !.probes = @ + 1]
      /\ UNCHANGED <<dependencies, missingDependencies, declinedDependencies, depIndex,
                     config, probeRes, held, rlClosed, envVars>>

(* ------------------------------ the end -------------------------------- *)

\* When closeReadline_NotAwaited is used for closeReadline, the main function
\* does not await checkAndSetPort and closes as soon as that suspends.
closeReadline_NotAwaited ==
  /\ pc \in {"main_close", "port_ask", "probe_listening", "probe_error"}
  /\ ~rlClosed
  /\ rlClosed' = TRUE
  /\ pc' = IF pc = "main_close" THEN "done" ELSE pc
  /\ history' = [history EXCEPT !.closes = @ + 1]
  /\ UNCHANGED <<dependencies, missingDependencies, declinedDependencies, depIndex,
                 config, newPort, probePort, probeFrom, probeRes, held, envVars>>

\* closeReadline(), the last statement of the main function (line 174).
closeReadline ==
  /\ pc = "main_close"
  /\ rlClosed' = TRUE
  /\ pc' = "done"
  /\ history' = [history EXCEPT !.closes = @ + 1]
  /\ UNCHANGED <<dependencies, missingDependencies, declinedDependencies, depIndex,
                 config, newPort, probePort, probeFrom, probeRes, held, envVars>>

(* --------------------------- other processes --------------------------- *)

Running == pc \notin {"done", "crashed"}

\* Another process binds a port nobody holds.
externalBind(p) ==
  /\ Running
  /\ p \notin extBound /\ p \notin held
  /\ extBound' = extBound \cup {p}
  /\ UNCHANGED <<progVars, installed, file, history>>

\* Another process releases a port it holds.
externalRelease(p) ==
  /\ Running
  /\ p \in extBound
  /\ extBound' = extBound \ {p}
  /\ UNCHANGED <<progVars, installed, file, history>>

(* ------------------- isPortInUse called on its own --------------------- *)

\* Arguments a caller may pass to isPortInUse.
ProbeArgs ==
  { Num(3000), Num(80), Num(80000), Frac(3000), Str(<<"3", "0", "0", "0">>), Bool(TRUE) }

\* A caller calls isPortInUse(port) and awaits it.
probeCall(port) ==
  /\ pc = "probe_idle"
  /\ history.probes < MaxProbes
  /\ probePort' = port
  /\ probeFrom' = "caller"
  /\ history' = [history EXCEPT !.probes = @ + 1,
                                !.outstanding = @ + 1,
                                !.prevPort = history.probedPort,
                                !.prevRes = history.probedRes]
  /\ pc' = "probe_listen"
  /\ UNCHANGED <<dependencies, missingDependencies, declinedDependencies, depIndex,
                 config, newPort, probeRes, held, rlClosed, envVars>>

\* The caller receives the answer.
probeReturn ==
  /\ pc = "probe_resolved"
  /\ probeFrom = "caller"
  /\ pc' = "probe_idle"
  /\ UNCHANGED <<dependencies, missingDependencies, declinedDependencies, depIndex,
                 config, newPort, probePort, probeFrom, probeRes, held, rlClosed,
                 envVars, history>>

\* Another process binds a port nobody holds, between or during the calls.
probeExternalBind(p) ==
  /\ Running
  /\ p \notin extBound /\ p \notin held
  /\ extBound' = extBound \cup {p}
  /\ history' = [history EXCEPT !.boundSince = @ \cup {p}]
  /\ UNCHANGED <<progVars, installed, file>>

InitProbe ==
  /\ pc = "probe_idle"
  /\ dependencies = <<>>
  /\ missingDependencies = <<>>
  /\ declinedDependencies = <<>>
  /\ depIndex = 1
  /\ config = FileBad
  /\ newPort = NaN
  /\ probePort = NaN
  /\ probeFrom = "none"
  /\ probeRes = FALSE
  /\ held = {}
  /\ rlClosed = FALSE
  /\ installed = {}
  /\ file = FileBad
  /\ extBound \in SUBSET ExternalPorts
  /\ history = History0

NextProbe ==
  \/ \E port \in ProbeArgs : probeCall(port)
  \/ isPortInUse
  \/ probeError
  \/ probeListening
  \/ probeClosed
  \/ probeReturn
  \/ \E p \in ExternalPorts : probeExternalBind(p)
  \/ \E p \in ExternalPorts : externalRelease(p)

SpecProbe == InitProbe /\ [][NextProbe]_vars

(* --------------------------- specification ----------------------------- *)

Next ==
  \/ checkAndInstallDependencies
  \/ installDependencyAsk
  \/ \E line \in DepAnswers, npmOk \in BOOLEAN : installDependencyAnswer(line, npmOk)
  \/ depsSummary
  \/ checkAndSetPort
  \/ isPortInUse
  \/ probeError
  \/ probeListening
  \/ probeClosed
  \/ \E writeOk \in BOOLEAN : afterProbe(writeOk)
  \/ promptPort
  \/ \E line \in PortAnswers : portAnswer(line)
  \/ closeReadline
  \/ \E p \in ExternalPorts : externalBind(p)
  \/ \E p \in ExternalPorts : externalRelease(p)

Spec == Init /\ [][Next]_vars

(* ------------- the earlier script, src/bootupchecks.js ----------------- *)
\* The earlier script has the dependency stage only. Its askUser creates a
\* readline interface for each question and closes it in the callback of the
\* question; nothing follows checkAndInstallDependencies.

\* The loop takes the next missing name; installDependency calls askUser,
\* which creates an interface and asks the question on it.
bootupAskUser ==
  /\ pc = "deps_loop"
  /\ depIndex <= Len(missingDependencies)
  /\ pc' = "deps_ask"
  /\ history' = [history EXCEPT !.sessions = @ + 1, !.outstanding = @ + 1]
  /\ UNCHANGED <<dependencies, missingDependencies, declinedDependencies, depIndex,
                 config, newPort, probePort, probeFrom, probeRes, held, rlClosed,
                 envVars>>

\* The operator answers: the callback closes the interface and resolves with
\* the trimmed, lowercased line; installDependency and the loop go on as in
\* the later script.
bootupAnswer(line, npmOk) ==
  LET dep    == missingDependencies[depIndex]
      answer == askUser(line)
      ran    == answer = Yes
  IN  /\ pc = "deps_ask"
      /\ installed' = IF ran /\ npmOk THEN installed \cup {dep} ELSE installed
      /\ declinedDependencies' =
           pushDeclined(declinedDependencies, installDependencyResult(dep, answer))
      /\ depIndex' = depIndex + 1
      /\ history' =
           [history EXCEPT
              !.closes      = @ + 1,
              !.outstanding = @ - 1,
              !.depAnswers  = Append(@, line),
              !.execLog     = IF ran THEN Append(@, dep) ELSE @,
              !.execFailed  = IF ran THEN Append(@, ~npmOk) ELSE @]
      /\ pc' = "deps_loop"
      /\ UNCHANGED <<dependencies, missingDependencies, config, newPort, probePort,
                     probeFrom, probeRes, held, rlClosed, file, extBound>>

\* The summary is printed and the script has nothing more to do.
bootupSummary ==
  /\ pc = "deps_loop"
  /\ depIndex > Len(missingDependencies)
  /\ history' =
       [history EXCEPT
          !.summary      = IF Len(declinedDependencies) > 0 THEN "declined" ELSE "all_installed",
          !.manualLines  = IF Len(declinedDependencies) > 0 THEN declinedDependencies ELSE <<>>,
          !.declinedAtSummary  = declinedDependencies,
          !.installedAtSummary = installed,
          !.depsFinished = TRUE]
  /\ pc' = "done"
  /\ UNCHANGED <<dependencies, missingDependencies, declinedDependencies, depIndex,
                 config, newPort, probePort, probeFrom, probeRes, held, rlClosed, envVars>>

\* The earlier script when loaded: no interface exists yet.
InitBootup ==
  /\ pc = "start"
  /\ dependencies \in DepLists
  /\ missingDependencies = <<>>
  /\ declinedDependencies = <<>>
  /\ depIndex = 1
  /\ config = FileBad
  /\ newPort = NaN
  /\ probePort = NaN
  /\ probeFrom = "none"
  /\ probeRes = FALSE
  /\ held = {}
  /\ rlClosed = FALSE
  /\ installed \in SUBSET {Express}
  /\ file = FileBad
  /\ extBound = {}
  /\ history = [History0 EXCEPT !.installed0 = installed, !.sessions = 0]

NextBootup ==
  \/ checkAndInstallDependencies
  \/ bootupAskUser
  \/ \E line \in DepAnswers, npmOk \in BOOLEAN : bootupAnswer(line, npmOk)
  \/ bootupSummary

SpecBootup == InitBootup /\ [][NextBootup]_vars

(* ------------- the run up to the start of the port stage --------------- *)

\* The steps of the main function from its start to its call of
\* checkAndSetPort, with an operator who answers each question.
NextDepsStage ==
  \/ checkAndInstallDependencies
  \/ installDependencyAsk
  \/ \E line \in DepAnswers, npmOk \in BOOLEAN : installDependencyAnswer(line, npmOk)
  \/ depsSummary

\* Each continuation that is ready is run by the event loop, execSync returns
\* or throws, and each question is answered.
SpecDepsStage == Init /\ [][NextDepsStage]_vars /\ WF_vars(NextDepsStage)

(* ------------------------------ claims --------------------------------- *)

\* The port member of config.json as it is now.
StoredPort == Get(file.members, "port")

\* v is an integer in [1, 65535].
IntegerInRange(v) == v.t = "int" /\ v.n >= MinPort /\ v.n <= MaxPort

\* The members of a record other than port, in order.
OtherMembers(m) == SelectSeq(m, LAMBDA e : e.k # "port")

\* C1: when a run has reached its end (readline closed) and config.json holds
\* a configuration record, the port stored in it is an integer in [1, 65535]
\* and is the port the last probe reported not bound.
C1_StoredPortValidAndProbedFree ==
  (pc = "done" /\ file.kind = "object") =>
    /\ IntegerInRange(StoredPort)
    /\ history.probedPort = StoredPort
    /\ history.probedRes = FALSE

\* C2: the file is not written while no candidate has passed both checks; a
\* write follows a candidate that is a valid port and that the probe
\* reported free, stores that candidate, and comes when the prompts issued
\* are one more than the candidates rejected.
C2_WriteOnlyAfterAcceptedCandidate ==
  /\ history.writes = 0 => file = history.file0
  /\ history.rejected = history.portPrompts => history.writes = 0
  /\ history.writes > 0 =>
       /\ IntegerInRange(history.accepted)
       /\ history.probedPort = history.accepted
       /\ history.probedRes = FALSE
       /\ history.portPrompts = history.rejected + 1
       /\ config.kind = "object" => StoredPort = history.accepted

\* C2's case: 80000 configured, one candidate rejected, then 3000 accepted
\* at the second prompt and written.
C2_Witness ==
  /\ history.file0 = FileObject(<<PortMember(Num(80000)), OtherMember>>)
  /\ history.writes = 1
  /\ history.rejected = 1
  /\ history.portPrompts = 2
  /\ history.accepted = Num(3000)

\* The configured port was probed and reported free, and checkAndSetPort has returned.
ConfiguredPortFree ==
  /\ pc \in {"main_close", "done"}
  /\ probeFrom = "initial"
  /\ ~probeRes

\* C3: when the loaded port is valid and the probe reports it free, the stage
\* ends UNCHANGED with no prompt and no write, and config.json is as it was.
C3_ValidFreePortLeavesConfigUnchanged ==
  ConfiguredPortFree =>
    /\ history.portOutcome = "unchanged"
    /\ history.portPrompts = 0
    /\ history.writes = 0
    /\ file = history.file0

\* C3's case: {port: 3000, otherField: "x"} with port 3000 free, and the run ended.
C3_Witness ==
  /\ ConfiguredPortFree
  /\ pc = "done"
  /\ history.file0 = FileObject(<<PortMember(Num(3000)), OtherMember>>)

\* C4: a rewrite of a configuration record stores every member other than
\* port as it was loaded, and the accepted candidate as port.
C4_RewriteKeepsOtherFields ==
  (history.writes > 0 /\ history.file0.kind = "object") =>
    /\ file.kind = "object"
    /\ file.members = history.written
    /\ OtherMembers(history.written) = OtherMembers(history.file0.members)
    /\ Get(history.written, "port") = history.accepted

\* C4's case: {port: 80000, otherField: "x"} rewritten with candidate 3000.
C4_Witness ==
  /\ history.file0 = FileObject(<<PortMember(Num(80000)), OtherMember>>)
  /\ history.writes = 1
  /\ file = FileObject(<<PortMember(Num(3000)), OtherMember>>)

\* C5: isPortValid answers true exactly for the integers in [1, 65535].
C5_ValidExactlyIntegersInRange ==
  history.validCalled => (history.validRes <=> IntegerInRange(history.validArg))

\* The port number a probe argument stands for.
PortOf(v) == ToNumber(v)

\* A direct call of isPortInUse has resolved, the call before it was for the
\* same port and resolved false, and no other process bound the port since.
SecondProbeOfFreePort ==
  /\ pc = "probe_resolved"
  /\ history.probes >= 2
  /\ PortOf(history.prevPort) = PortOf(probePort)
  /\ history.prevRes = FALSE
  /\ history.quiet

\* C6: when the probe resolves false this process holds no socket, and a
\* second call on the same free port, with no external bind in between,
\* resolves false like the first.
C6_ProbeReleasesSocket ==
  /\ (pc = "probe_resolved" /\ ~probeRes) => held = {}
  /\ SecondProbeOfFreePort => probeRes = FALSE

\* C6's case: isPortInUse(3000) twice in succession, false both times.
C6_Witness ==
  /\ SecondProbeOfFreePort
  /\ history.probes = 2
  /\ probePort = Num(3000)
  /\ history.prevPort = Num(3000)
  /\ probeRes = FALSE

\* C7: no call of the probe rejects or throws to its caller.
C7_ProbeNeverRejects ==
  ~history.probeThrew

\* The required names that did not resolve when the stage began, in order.
NotResolved == SelectSeq(dependencies, LAMBDA d : d \notin history.installed0)

\* The typed line, trimmed and lowercased, is "yes".
IsYes(line) == ToLowerCase(Trim(line)) = <<"y", "e", "s">>

\* Of the names answered so far, those whose answer is "yes" (yes = TRUE) or
\* is not (yes = FALSE), in order.
RECURSIVE Pick(_, _, _)
Pick(names, answers, yes) ==
  IF names = <<>> \/ answers = <<>> THEN <<>>
  ELSE (IF IsYes(Head(answers)) = yes THEN <<Head(names)>> ELSE <<>>)
         \o Pick(Tail(names), Tail(answers), yes)

RefusedNames  == Pick(NotResolved, history.depAnswers, FALSE)
AcceptedNames == Pick(NotResolved, history.depAnswers, TRUE)

Range(q) == {q[i] : i \in 1..Len(q)}

PortStageTerminated == history.portOutcome \in {"failed_load", "unchanged", "updated"}

\* C10: nothing of the port stage (read, probe, prompt) happens before the
\* dependency stage has handled every missing name and returned, and the
\* prompter is closed only after the port stage has terminated.
C10_StagesInOrder ==
  /\ ~history.depsFinished =>
       history.reads = 0 /\ history.probes = 0 /\ history.portPrompts = 0
  /\ history.depsFinished =>
       /\ depIndex > Len(missingDependencies)
       /\ Len(history.depAnswers) = Len(missingDependencies)
  /\ history.reads > 0 => history.depsFinished
  /\ rlClosed => PortStageTerminated

\* C10's case: a run with an install, a port prompt and an update, then closed.
C10_Witness ==
  /\ pc = "done"
  /\ rlClosed
  /\ history.execLog # <<>>
  /\ history.portPrompts >= 1
  /\ history.portOutcome = "updated"

(* ------------------------------- C11 ----------------------------------- *)

\* The run has stopped: the main function returned, or an error left it.
RunEnded == pc \in {"done", "crashed"}

\* C11: every run calls close() on the prompter exactly once, after its last
\* question, on every path through the port stage: a run that has stopped has
\* closed the prompter once, the prompter is never closed twice, and once it
\* is closed no question is asked or outstanding.
C11_ClosedExactlyOnceAfterLastQuestion ==
  /\ history.closes <= 1
  /\ RunEnded => history.closes = 1
  /\ rlClosed => (pc = "done" /\ history.outstanding = 0)

(* ------------------------------- C12 ----------------------------------- *)

C13_LoadFailureEndsPortStageQuietly ==
  /\ (history.reads >= 1 /\ history.file0.kind = "bad") => history.portOutcome = "failed_load"
  /\ history.portOutcome = "failed_load" =>
       /\ history.portPrompts = 0 /\ history.probes = 0 /\ history.writes = 0
       /\ file = history.file0
       /\ history.depsFinished
       /\ declinedDependencies = history.declinedAtSummary
       /\ installed = history.installedAtSummary
       /\ pc \in {"main_close", "done"}
       /\ pc = "main_close" => ENABLED closeReadline
       /\ pc = "done" => (rlClosed /\ history.closes = 1)

\* An unreadable configuration after a dependency stage with a declined name
\* and a failed install, and the run is over.
C13_Witness ==
  /\ history.portOutcome = "failed_load"
  /\ pc = "done"
  /\ declinedDependencies # <<>>
  /\ \E i \in DOMAIN history.execFailed : history.execFailed[i]

(* ------------------------------- C14 ----------------------------------- *)

\* C14: the dependency stage never aborts the run: whatever names are
\* missing, whatever the answers and whether each install succeeds or fails,
\* the run stays in the stage until its summary is printed, the stage
\* completes, and the main function then calls checkAndSetPort.
C14_DependencyStageCompletes ==
  /\ [](~history.depsFinished => pc \in {"start", "deps_loop", "deps_ask"})
  /\ <>(history.depsFinished /\ pc = "port_start")

\* checkAndSetPort is called after a stage with a failed install and a refusal.
C14_Witness ==
  /\ history.depsFinished
  /\ pc = "port_start"
  /\ \E i \in DOMAIN history.execFailed : history.execFailed[i]
  /\ declinedDependencies # <<>>

(* ------------------------------- C15 ----------------------------------- *)

\* The run is inside the prompt loop: before a prompt, at a prompt, or probing
\* a candidate.
InPromptLoop ==
  \/ pc \in {"port_loop", "port_ask"}
  \/ (probeFrom = "loop" /\ pc \in {"probe_listen", "probe_error", "probe_listening",
                                    "probe_closing", "probe_resolved"})

\* A candidate was stored: it is an integer in range and its probe resolved false.
CandidateAccepted ==
  /\ history.accepted # NaN
  /\ IntegerInRange(history.accepted)
  /\ history.probedPort = history.accepted /\ ~history.probedRes

\* The loop is left only by accepting a candidate, and each candidate that
\* was rejected, as invalid or as in use, cost exactly one prompt and was
\* followed by the loop going on.
LoopLeftOnlyByAccepting ==
  /\ history.loopEntered => (InPromptLoop \/ CandidateAccepted)
  /\ (history.loopEntered /\ InPromptLoop) =>
        history.portPrompts = history.rejected + (IF pc = "port_loop" THEN 0 ELSE 1)

\* C15: once the prompt loop is entered it is left only by accepting a
\* candidate; every prompt answered with an invalid or in-use candidate is
\* followed by one more prompt, never by an error or an exit; and a
\* candidate that is valid and probed free ends the stage in UPDATED.
C15_LoopLeftOnlyByAcceptingIntoUpdated ==
  /\ LoopLeftOnlyByAccepting
  /\ history.accepted # NaN =>
        (history.portOutcome = "updated" /\ pc \in {"main_close", "done"})

(* ------------------------------- C16 ----------------------------------- *)

\* The port of the configuration record as loaded.
LoadedPort == Get(history.file0.members, "port")

\* The probe of the configured port has been started and its answer has not
\* yet been used.
InitialProbePending ==
  /\ probeFrom = "initial"
  /\ pc \in {"probe_listen", "probe_error", "probe_listening", "probe_closing",
             "probe_resolved"}

\* C16: after a successful load of a record, the prompt loop is entered
\* exactly when the configured port is missing or falsy, or is not a valid
\* port (an integer from 1 to 65535), or the probe reported it in use; in
\* every other case the stage ends in UNCHANGED.
C16_LoopEnteredExactlyWhenPortUnusable ==
  (history.file0.kind = "object" /\ history.reads >= 1 /\ ~InitialProbePending) =>
     /\ history.loopEntered <=>
          (~Truthy(LoadedPort) \/ ~IntegerInRange(LoadedPort)
             \/ history.firstProbe = "inuse")
     /\ ~history.loopEntered => history.portOutcome = "unchanged"

(* ------------------------------- C17 ----------------------------------- *)

\* C17: config.json is written at most once in a run, and the write is the
\* last thing the port stage does with the file, the prompter or a port: no
\* read, probe or prompt follows it, and the stage has ended.
C17_WriteAtMostOnceAndLast ==
  /\ history.writes <= 1
  /\ history.writes = 1 =>
       /\ history.atWrite = <<history.reads, history.probes, history.portPrompts>>
       /\ history.outstanding = 0
       /\ pc \in {"main_close", "done"}
       /\ history.portOutcome = "updated"

\* The file was written after a rejected candidate and the run is over.
C17_Witness ==
  /\ history.writes = 1
  /\ history.rejected >= 1
  /\ pc = "done"

(* ------------------------------- C18 ----------------------------------- *)

\* The main function is suspended on a question or on a probe.
Suspended ==
  pc \in {"deps_ask", "port_ask", "probe_listen", "probe_error", "probe_listening",
          "probe_closing"}

\* C18: at most one suspension is outstanding at any time: a question or a
\* probe is started only when every earlier one has resolved, an install runs
\* only after its own question was answered, and no two dependencies and no
\* two port candidates are handled at once.
C18_OneSuspensionAtATime ==
  /\ history.outstanding \in {0, 1}
  /\ history.outstanding = 1 <=> Suspended
  /\ pc \in {"deps_loop", "deps_ask"} => Len(history.depAnswers) = depIndex - 1
  /\ Len(history.execLog) <= Len(history.depAnswers)
  /\ history.portPrompts \in {history.rejected, history.rejected + 1}

\* A second port question is outstanding after a dependency question, a probe
\* of the configured port and a first port question have each resolved.
C18_Witness ==
  /\ pc = "port_ask"
  /\ history.outstanding = 1
  /\ Len(history.depAnswers) >= 1
  /\ history.firstProbe = "inuse"
  /\ history.portPrompts = 2

(* ------------------------------- C19 ----------------------------------- *)

\* C19: at the end of the dependency stage exactly one of the two summaries
\* is printed: with a non-empty declined list the not-installed list and one
\* "npm install <name>" line for each declined name, in order; with an empty
\* declined list the confirmation and no such line. Nothing is printed before.
C19_ExactlyOneSummary ==
  /\ ~history.depsFinished => (history.summary = "none" /\ history.manualLines = <<>>)
  /\ history.depsFinished =>
       IF history.declinedAtSummary # <<>>
       THEN history.summary = "declined" /\ history.manualLines = history.declinedAtSummary
       ELSE history.summary = "all_installed" /\ history.manualLines = <<>>

\* The stage ended with two declined names and two manual install lines.
C19_Witness ==
  /\ history.depsFinished
  /\ history.summary = "declined"
  /\ Len(history.manualLines) = 2

(* ------------------------------- C20 ----------------------------------- *)

\* The install command was run for the name and completed without error.
InstalledInStage(name) ==
  \E j \in DOMAIN history.execLog : history.execLog[j] = name /\ ~history.execFailed[j]

\* C20: when the confirmation 'All dependencies are installed!' is printed,
\* every required name either resolved at the start of the stage or had its
\* install command complete successfully during the stage. Stated for lists
\* of package names, none of them empty.
C20_ConfirmationMeansAllInstalled ==
  (history.summary = "all_installed" /\ \A i \in DOMAIN dependencies : dependencies[i] # <<>>) =>
    \A i \in DOMAIN dependencies :
       dependencies[i] \in history.installed0 \/ InstalledInStage(dependencies[i])

====
